---- MODULE Spec2Model ----
(***************************************************************************)
(* PoET wait timers (validator/journal/consensus/poet1/wait_timer.py):     *)
(* the class-level consensus parameters, the population estimator, the     *)
(* local-mean computation and the WaitTimer life cycle.                    *)
(*                                                                         *)
(* Python floats are modelled as exact rationals <<num, den>> (den > 0,    *)
(* lowest terms); rounding is not modelled.  A raised exception is a       *)
(* result whose err field names the exception.                             *)
(***************************************************************************)
EXTENDS Integers, Sequences, FiniteSets, TLC

\* ------------------------------------------------------------------ bounds
MaxLen == 2
MaxBlocks == 2
MaxPopulation == 3
MaxLatePolls == 3

\* ------------------------------------------------------------ rationals
Abs(n) == IF n < 0 THEN -n ELSE n

RECURSIVE GCD(_, _)
GCD(a, b) == IF b = 0 THEN a ELSE GCD(b, a % b)

Norm(n, d) ==
    LET g == GCD(Abs(n), Abs(d))
        s == IF d < 0 THEN -1 ELSE 1
    IN  <<(s * n) \div g, (s * d) \div g>>

R(n) == <<n, 1>>
RAdd(x, y) == Norm(x[1] * y[2] + y[1] * x[2], x[2] * y[2])
RSub(x, y) == Norm(x[1] * y[2] - y[1] * x[2], x[2] * y[2])
RMul(x, y) == Norm(x[1] * y[1], x[2] * y[2])
RDiv(x, y) == Norm(x[1] * y[2], x[2] * y[1])
RLt(x, y) == x[1] * y[2] < y[1] * x[2]
RLe(x, y) == x[1] * y[2] <= y[1] * x[2]
RIsZero(x) == x[1] = 0

\* float(x): value preserving on the numbers modelled here
FloatOf(x) == Norm(x[1], x[2])

\* int(x): truncation toward zero
IntOf(x) ==
    IF x[1] >= 0 THEN x[1] \div x[2] ELSE -((-x[1]) \div x[2])

\* ----------------------------------------------------- results of a call
NoVal == R(0)
Value(v) == [err |-> "none", val |-> v]
Raise(e) == [err |-> e, val |-> NoVal]
IsValue(r) == r.err = "none"

\* ------------------------------------------------ class-level parameters
DefaultMinimumWaitTime == 1
DefaultTargetWaitTime == 30
DefaultInitialWaitTime == 3000
DefaultCertificateSampleLength == 50

\* poet_enclave.MINIMUM_WAIT_TIME, the enclave's own minimum
MINIMUM_WAIT_TIME == 1

\* gossip.common.NullIdentifier
NullIdentifier == "0000000000000000"

\* A configuration: the five class attributes of WaitTimer
Config(mn, tg, ini, csl, fdb) ==
    [minimum_wait_time |-> mn, target_wait_time |-> tg,
     initial_wait_time |-> ini, certificate_sample_length |-> csl,
     fixed_duration_blocks |-> fdb]

DefaultConfig ==
    Config(R(DefaultMinimumWaitTime), R(DefaultTargetWaitTime),
           R(DefaultInitialWaitTime), DefaultCertificateSampleLength,
           DefaultCertificateSampleLength)

\* ------------------------------------------------------------ certificates
\* Committed certificates the driver may pass: waits above the enclave
\* minimum of 2, 0 and -1/2 seconds.
Certificate(id, dur, lm) == [identifier |-> id, duration |-> dur, local_mean |-> lm]

Certificates ==
    { Certificate("c1", R(3), R(2)),
      Certificate("c2", R(1), R(1)),
      Certificate("c3", <<1, 2>>, R(1)) }

Histories == UNION { [1..n -> Certificates] : n \in 0..MaxLen }

\* certificates[:k] (Python slice, k may be negative or exceed the length)
Prefix(certificates, k) ==
    LET n == Len(certificates)
        stop == IF k < 0 THEN (IF n + k < 0 THEN 0 ELSE n + k)
                ELSE (IF k > n THEN n ELSE k)
    IN  SubSeq(certificates, 1, stop)

\* SumWaits summing the durations without subtracting the enclave minimum
RECURSIVE SumWaitsRaw(_)
SumWaitsRaw(sample) ==
    IF sample = <<>> THEN R(0)
    ELSE RAdd(Head(sample).duration, SumWaitsRaw(Tail(sample)))

\* the loop of lines 87-92: (sum_waits, sum_means) over the sample
RECURSIVE SumWaits(_)
SumWaits(sample) ==
    IF sample = <<>> THEN R(0)
    ELSE RAdd(RSub(Head(sample).duration, R(MINIMUM_WAIT_TIME)),
              SumWaits(Tail(sample)))

RECURSIVE SumMeans(_)
SumMeans(sample) ==
    IF sample = <<>> THEN R(0)
    ELSE RAdd(Head(sample).local_mean, SumMeans(Tail(sample)))

\* x / y in Python: ZeroDivisionError when y = 0
PyDiv(x, y) == IF RIsZero(y) THEN Raise("ZeroDivisionError") ELSE Value(RDiv(x, y))

\* SampleAvailable with the assertion compiled away
SampleAvailableUnchecked(cfg, certificates) == TRUE

\* the precondition of line 85
SampleAvailable(cfg, certificates) ==
    Len(certificates) >= cfg.certificate_sample_length

\* the denominator of lines 94-95
AverageOver(cfg, certificates) == Len(certificates)

\* EstimateFromSample averaging the waits over the sample and the means
\* over the whole input
EstimateFromSampleDiluting(cfg, certificates) ==
    LET sample    == Prefix(certificates, cfg.certificate_sample_length)
        sum_waits == SumWaits(sample)
        sum_means == SumMeans(sample)
        avg_wait  == PyDiv(sum_waits, R(Len(sample)))
        avg_mean  == PyDiv(sum_means, R(AverageOver(cfg, certificates)))
    IN  IF ~IsValue(avg_wait) THEN avg_wait
        ELSE IF ~IsValue(avg_mean) THEN avg_mean
        ELSE PyDiv(avg_mean.val, avg_wait.val)

\* lines 87-97: the estimate once the precondition has passed
EstimateFromSample(cfg, certificates) ==
    LET sample    == Prefix(certificates, cfg.certificate_sample_length)
        sum_waits == SumWaits(sample)
        sum_means == SumMeans(sample)
        avg_wait  == PyDiv(sum_waits, R(AverageOver(cfg, certificates)))
        avg_mean  == PyDiv(sum_means, R(AverageOver(cfg, certificates)))
    IN  IF ~IsValue(avg_wait) THEN avg_wait
        ELSE IF ~IsValue(avg_mean) THEN avg_mean
        ELSE PyDiv(avg_mean.val, avg_wait.val)

\* WaitTimer._population_estimate
population_estimate(cfg, certificates) ==
    IF ~SampleAvailable(cfg, certificates) THEN Raise("AssertionError")
    ELSE EstimateFromSample(cfg, certificates)

\* InBootstrap with the boundary count = fixed_duration_blocks taken as bootstrap
InBootstrapInclusive(cfg, count) ==
    cfg.fixed_duration_blocks > 0 /\ count <= cfg.fixed_duration_blocks

\* the regime test of line 143
InBootstrap(cfg, count) == count < cfg.fixed_duration_blocks

\* BootstrapMean with the two weights exchanged
BootstrapMeanSwapped(cfg, count) ==
    LET ratio == RDiv(R(count), R(cfg.fixed_duration_blocks))
        r2    == RMul(ratio, ratio)
    IN  RAdd(RMul(cfg.target_wait_time, r2),
             RMul(cfg.initial_wait_time, RSub(R(1), r2)))

\* BootstrapMean with count / fixed_duration_blocks truncated to an integer
BootstrapMeanTruncated(cfg, count) ==
    LET ratio == R(count \div cfg.fixed_duration_blocks)
        r2    == RMul(ratio, ratio)
    IN  RAdd(RMul(cfg.target_wait_time, RSub(R(1), r2)),
             RMul(cfg.initial_wait_time, r2))

\* lines 144-147
BootstrapMean(cfg, count) ==
    LET ratio == RDiv(R(count), R(cfg.fixed_duration_blocks))
        r2    == RMul(ratio, ratio)
    IN  RAdd(RMul(cfg.target_wait_time, RSub(R(1), r2)),
             RMul(cfg.initial_wait_time, r2))

\* lines 149-150, given the estimator's result
SteadyStateMean(cfg, est) ==
    IF IsValue(est) THEN Value(RMul(cfg.target_wait_time, est.val)) ELSE est

\* WaitTimer.compute_local_mean
compute_local_mean(cfg, certificates) ==
    LET count == Len(certificates)
    IN  IF InBootstrap(cfg, count)
        THEN Value(BootstrapMean(cfg, count))
        ELSE SteadyStateMean(cfg, population_estimate(cfg, certificates))

\* ------------------------------------------------- set_wait_timer_globals
\* An optional argument is {} (None) or {v}.
The(S) == CHOOSE x \in S : TRUE
Optional(S) == {{}} \cup {{v} : v \in S}

Args(tg, ini, csl, fdb, mn) ==
    [target_wait_time |-> tg, initial_wait_time |-> ini,
     certificate_sample_length |-> csl, fixed_duration_blocks |-> fdb,
     minimum_wait_time |-> mn]

NoArgs == Args({}, {}, {}, {}, {})

\* lines 202-203
AssignTarget(cfg, a) ==
    IF a.target_wait_time # {}
    THEN [cfg EXCEPT !.target_wait_time = FloatOf(The(a.target_wait_time))]
    ELSE cfg

\* lines 204-205
AssignInitial(cfg, a) ==
    IF a.initial_wait_time # {}
    THEN [cfg EXCEPT !.initial_wait_time = FloatOf(The(a.initial_wait_time))]
    ELSE cfg

\* lines 206-207
AssignSampleLength(cfg, a) ==
    IF a.certificate_sample_length # {}
    THEN [cfg EXCEPT !.certificate_sample_length =
                         IntOf(The(a.certificate_sample_length))]
    ELSE cfg

\* AssignBlocksFromSample with line 208 outside the test of line 206
AssignBlocksFromSampleAlways(cfg, a) ==
    [cfg EXCEPT !.fixed_duration_blocks = cfg.certificate_sample_length]

\* lines 206, 208
AssignBlocksFromSample(cfg, a) ==
    IF a.certificate_sample_length # {}
    THEN [cfg EXCEPT !.fixed_duration_blocks =
                         IntOf(The(a.certificate_sample_length))]
    ELSE cfg

\* lines 209-210
AssignBlocks(cfg, a) ==
    IF a.fixed_duration_blocks # {}
    THEN [cfg EXCEPT !.fixed_duration_blocks =
                         IntOf(The(a.fixed_duration_blocks))]
    ELSE cfg

\* lines 211-212
AssignMinimum(cfg, a) ==
    IF a.minimum_wait_time # {}
    THEN [cfg EXCEPT !.minimum_wait_time = FloatOf(The(a.minimum_wait_time))]
    ELSE cfg

\* set_wait_timer_globals with the two fixed_duration_blocks writes swapped
set_wait_timer_globals_swapped(cfg, a) ==
    AssignMinimum(
      AssignBlocksFromSample(
        AssignBlocks(
          AssignSampleLength(
            AssignInitial(
              AssignTarget(cfg, a), a), a), a), a), a)

\* the whole body of set_wait_timer_globals, in program order
set_wait_timer_globals(cfg, a) ==
    AssignMinimum(
      AssignBlocks(
        AssignBlocksFromSample(
          AssignSampleLength(
            AssignInitial(
              AssignTarget(cfg, a), a), a), a), a), a)

\* Values an administrator supplies
TargetValues == {R(60)}
InitialValues == {R(45)}
MinimumValues == {R(2)}
BlockValues == {R(n) : n \in 0..MaxBlocks}
SampleValues == BlockValues \cup {<<3, 2>>}

\* calls that supply the block counts, the wait times, or everything
AllArgs ==
    { Args({}, {}, csl, fdb, {}) :
        csl \in Optional(SampleValues), fdb \in Optional(BlockValues) }
    \cup
    { Args(tg, ini, {}, {}, mn) :
        tg \in Optional(TargetValues), ini \in Optional(InitialValues),
        mn \in Optional(MinimumValues) }
    \cup
    { Args(tg, ini, csl, fdb, mn) :
        tg \in {{v} : v \in TargetValues}, ini \in {{v} : v \in InitialValues},
        csl \in {{v} : v \in BlockValues}, fdb \in Optional({R(0)}),
        mn \in {{v} : v \in MinimumValues} }

\* --------------------------------------------------------------- enclave
\* The enclave is an external capability: what it answers is chosen by the
\* environment.  A handle carries the fields WaitTimer.__init__ copies.
Handle(prev, lm, rt, dur, sig) ==
    [previous_certificate_id |-> prev, local_mean |-> lm,
     request_time |-> rt, duration |-> dur, signature |-> sig]

\* enclave_timer.serialize()
Serialize(h) ==
    <<h.previous_certificate_id, h.local_mean, h.request_time, h.duration>>

\* the signature the enclave puts on a timer's contents
Sign(prev, lm, rt, dur) == <<"signed", prev, lm, rt, dur>>

\* poet_enclave.create_wait_timer(previous_certificate_id, local_mean)
enclave_create_wait_timer(prev, lm, rt, dur) ==
    Handle(prev, lm, rt, dur, Sign(prev, lm, rt, dur))

\* poet_enclave.deserialize_wait_timer(serialized_timer, signature)
deserialize_wait_timer(ser, sig) == Handle(ser[1], ser[2], ser[3], ser[4], sig)

EnclaveDurations == {R(2), <<5, 2>>}
ClockValues == {R(10)}

\* -------------------------------------------------------------- WaitTimer
Grace == <<1, 10>>

\* line 173
ExpiresAt(t, duration) == RAdd(RAdd(t, duration), Grace)

\* WaitTimer.__init__(enclave_timer), constructed when time.time() = t
NewWaitTimer(h, t) ==
    [live |-> TRUE,
     previous_certificate_id |-> h.previous_certificate_id,
     local_mean |-> FloatOf(h.local_mean),
     request_time |-> FloatOf(h.request_time),
     duration |-> FloatOf(h.duration),
     signature |-> h.signature,
     serialized_timer |-> Serialize(h),
     expires |-> ExpiresAt(t, FloatOf(h.duration))]

NoTimer ==
    [live |-> FALSE, previous_certificate_id |-> NullIdentifier,
     local_mean |-> NoVal, request_time |-> NoVal, duration |-> NoVal,
     signature |-> Sign(NullIdentifier, NoVal, NoVal, NoVal),
     serialized_timer |-> <<NullIdentifier, NoVal, NoVal, NoVal>>,
     expires |-> NoVal]

\* the property enclave_wait_timer, lines 154-159
enclave_wait_timer(t) == deserialize_wait_timer(t.serialized_timer, t.signature)

\* lines 113-114
PreviousCertificateId(certificates) ==
    IF Len(certificates) > 0
    THEN certificates[Len(certificates)].identifier
    ELSE NullIdentifier

\* BeforeDeadline with the operands of the comparison exchanged
BeforeDeadlineReversed(t, now) == RLt(t.expires, now)

\* BeforeDeadline with the deadline itself counted as early
BeforeDeadlineInclusive(t, now) == RLe(now, t.expires)

\* line 191
BeforeDeadline(t, now) == RLt(now, t.expires)

\* ----------------------------------------------------------------- state
VARIABLES
    config,     \* the class attributes of WaitTimer
    timer,      \* the WaitTimer the driver holds (live = FALSE: none yet)
    last,       \* the last call: its arguments, result and enclave calls
    setter,     \* a thread inside set_wait_timer_globals, statement by statement
    reader,     \* a thread inside compute_local_mean, read by read
    watch       \* a driver polling one timer in time order: what it has seen

vars == <<config, timer, last, setter, reader, watch>>
threads == <<setter, reader>>

SetterIdle == [pc |-> "idle", args |-> NoArgs, before |-> DefaultConfig,
               after |-> DefaultConfig]

NoReads ==
    [fixed_duration_blocks |-> <<>>, target_wait_time |-> <<>>,
     initial_wait_time |-> <<>>, certificate_sample_length |-> <<>>]

ReaderIdle == [pc |-> "idle", certificates |-> <<>>, reads |-> NoReads,
               allowed |-> {}, result |-> Value(NoVal)]

\* nothing polled yet on a timer whose verification the enclave will
\* answer with verdict
WatchNew(verdict) ==
    [polled |-> FALSE, polled_at |-> NoVal, late |-> 0, returned |-> FALSE,
     verdict |-> verdict]

NoCall ==
    [op |-> "none", certificates |-> <<>>, now |-> NoVal, args |-> NoArgs,
     result |-> Value(NoVal), flag |-> FALSE,
     creates |-> <<>>, deserializes |-> <<>>, verifies |-> <<>>]

Init ==
    /\ config = DefaultConfig
    /\ timer = NoTimer
    /\ last = NoCall
    /\ setter = SetterIdle
    /\ reader = ReaderIdle
    /\ watch = WatchNew(FALSE)

\* ------------------------------------------------------------ operations
\* create_wait_timer catching the enclave's failure and returning no timer
create_wait_timer_swallowing(cfg, certificates, fails, dur, t) ==
    LET prev == PreviousCertificateId(certificates)
        lm   == compute_local_mean(cfg, certificates)
        call == [previous_certificate_id |-> prev, local_mean |-> lm.val,
                 raised |-> fails]
    IN  IF ~IsValue(lm)
        THEN [result |-> lm, creates |-> <<>>, made |-> NoTimer]
        ELSE IF fails
        THEN [result |-> Value(NoVal), creates |-> <<call>>, made |-> NoTimer]
        ELSE [result |-> Value(lm.val), creates |-> <<call>>,
              made |-> NewWaitTimer(
                          enclave_create_wait_timer(prev, lm.val, t, dur), t)]

\* WaitTimer.create_wait_timer: the outcome when the enclave fails or
\* answers with a timer of duration dur requested at time t
create_wait_timer(cfg, certificates, fails, dur, t) ==
    LET prev == PreviousCertificateId(certificates)
        lm   == compute_local_mean(cfg, certificates)
        call == [previous_certificate_id |-> prev, local_mean |-> lm.val,
                 raised |-> fails]
    IN  IF ~IsValue(lm)
        THEN [result |-> lm, creates |-> <<>>, made |-> NoTimer]
        ELSE IF fails
        THEN [result |-> Raise("EnclaveUnavailable"), creates |-> <<call>>,
              made |-> NoTimer]
        ELSE [result |-> Value(lm.val), creates |-> <<call>>,
              made |-> NewWaitTimer(
                          enclave_create_wait_timer(prev, lm.val, t, dur), t)]

\* has_expired consulting the enclave before looking at the deadline
has_expired_verify_first(t, now, answer) ==
    [flag |-> IF BeforeDeadline(t, now) THEN FALSE ELSE answer,
     deserializes |-> <<[serialized_timer |-> t.serialized_timer,
                         signature |-> t.signature]>>,
     verifies |-> <<[handle |-> enclave_wait_timer(t), ret |-> answer]>>]

\* WaitTimer.has_expired(now); answer is what verify_wait_timer would return
has_expired(t, now, answer) ==
    IF BeforeDeadline(t, now)
    THEN [flag |-> FALSE, deserializes |-> <<>>, verifies |-> <<>>]
    ELSE [flag |-> answer,
          deserializes |-> <<[serialized_timer |-> t.serialized_timer,
                              signature |-> t.signature]>>,
          verifies |-> <<[handle |-> enclave_wait_timer(t), ret |-> answer]>>]

\* times at which the driver polls a timer
PollTimes(t) ==
    {RSub(t.expires, Grace), t.expires, RAdd(t.expires, R(1)), t.request_time}

SetWaitTimerGlobals(a) ==
    /\ config' = set_wait_timer_globals(config, a)
    /\ last' = [NoCall EXCEPT !.op = "set_wait_timer_globals", !.args = a]
    /\ UNCHANGED <<timer, threads, watch>>

ComputeLocalMean(certificates) ==
    /\ last' = [NoCall EXCEPT !.op = "compute_local_mean",
                              !.certificates = certificates,
                              !.result = compute_local_mean(config, certificates)]
    /\ UNCHANGED <<config, timer, threads, watch>>

PopulationEstimate(certificates) ==
    /\ last' = [NoCall EXCEPT !.op = "population_estimate",
                              !.certificates = certificates,
                              !.result = population_estimate(config, certificates)]
    /\ UNCHANGED <<config, timer, threads, watch>>

CreateWaitTimer(certificates, fails, dur, t) ==
    \E out \in {create_wait_timer(config, certificates, fails, dur, t)} :
        /\ last' = [NoCall EXCEPT !.op = "create_wait_timer",
                                  !.certificates = certificates,
                                  !.now = t,
                                  !.result = out.result,
                                  !.flag = out.made.live,
                                  !.creates = out.creates]
        /\ timer' = IF out.made.live THEN out.made ELSE timer
        /\ UNCHANGED <<config, threads>>

\* HasExpired pushing the deadline to now once the enclave has been asked
HasExpiredRearming(now, answer) ==
    /\ timer.live
    /\ \E out \in {has_expired(timer, now, answer)} :
           /\ last' = [NoCall EXCEPT !.op = "has_expired", !.now = now,
                                     !.flag = out.flag,
                                     !.deserializes = out.deserializes,
                                     !.verifies = out.verifies]
           /\ timer' = IF Len(out.verifies) > 0
                       THEN [timer EXCEPT !.expires = RAdd(now, Grace)]
                       ELSE timer
    /\ UNCHANGED <<config, threads>>

HasExpired(now, answer) ==
    /\ timer.live
    /\ \E out \in {has_expired(timer, now, answer)} :
           last' = [NoCall EXCEPT !.op = "has_expired", !.now = now,
                                  !.flag = out.flag,
                                  !.deserializes = out.deserializes,
                                  !.verifies = out.verifies]
    /\ UNCHANGED <<config, timer, threads>>

\* ------------------------------------------------------- specifications
\* Reconfigurations applied while timers are in flight
TimerArgs == { Args({}, {}, {R(n)}, {}, {}) : n \in 1..MaxBlocks }

\* Histories passed to create_wait_timer: waits of 2 and -1/2 seconds
TimerCertificates == { c \in Certificates : c.identifier # "c2" }
TimerHistories == UNION { [1..n -> TimerCertificates] : n \in 0..MaxLen }

DoReconfigure == \E a \in TimerArgs : SetWaitTimerGlobals(a)
DoCreate ==
    \E certificates \in TimerHistories, dur \in EnclaveDurations, t \in ClockValues :
        CreateWaitTimer(certificates, FALSE, dur, t) /\ UNCHANGED watch
DoCreateFails ==
    \E certificates \in TimerHistories :
        CreateWaitTimer(certificates, TRUE, NoVal, NoVal) /\ UNCHANGED watch
DoPoll ==
    \E now \in PollTimes(timer), answer \in BOOLEAN :
        HasExpired(now, answer) /\ UNCHANGED watch

Next == DoReconfigure \/ DoCreate \/ DoCreateFails \/ DoPoll

Spec == Init /\ [][Next]_vars

\* One driver polling its timer at non-decreasing times, against an
\* enclave whose verification of a given timer always answers the same
LifecycleHistories == { h \in TimerHistories : Len(h) <= 1 }

DoWatchCreate ==
    \E certificates \in LifecycleHistories, dur \in EnclaveDurations,
       t \in ClockValues, verdict \in BOOLEAN :
        /\ CreateWaitTimer(certificates, FALSE, dur, t)
        /\ watch' = IF last'.flag THEN WatchNew(verdict) ELSE watch
DoWatchPoll ==
    \E now \in PollTimes(timer) :
        /\ watch.polled => RLe(watch.polled_at, now)
        /\ watch.late < MaxLatePolls
        /\ HasExpired(now, watch.verdict)
        /\ watch' = [watch EXCEPT
                        !.polled = TRUE,
                        !.polled_at = now,
                        !.late = @ + Len(last'.verifies),
                        !.returned = IF watch.late = 0 THEN last'.flag ELSE @]

NextLifecycle == DoReconfigure \/ DoWatchCreate \/ DoWatchPoll

SpecLifecycle == Init /\ [][NextLifecycle]_vars

\* The estimators and the configuration alone
DoSetGlobals == \E a \in AllArgs : SetWaitTimerGlobals(a)
DoCompute == \E certificates \in Histories : ComputeLocalMean(certificates)
DoEstimate == \E certificates \in Histories : PopulationEstimate(certificates)

NextEstimator == DoSetGlobals \/ DoCompute \/ DoEstimate

SpecEstimator == Init /\ [][NextEstimator]_vars

\* The estimator on synthetic histories: certificate_sample_length copies
\* (at most MaxBlocks) of one certificate whose wait above the enclave
\* minimum is local_mean / n
SyntheticMeans == {R(1), R(2), R(3), R(30), <<3, 2>>, <<5, 2>>}

SyntheticCertificate(lm, n) ==
    Certificate("s", RAdd(R(MINIMUM_WAIT_TIME), RDiv(lm, R(n))), lm)

SyntheticHistory(cfg, lm, n) ==
    [i \in 1..cfg.certificate_sample_length |-> SyntheticCertificate(lm, n)]

SyntheticArgs ==
    { Args({}, {}, csl, {}, mn) :
        csl \in Optional(BlockValues), mn \in Optional(MinimumValues) }

DoSetSampleLength == \E a \in SyntheticArgs : SetWaitTimerGlobals(a)
DoEstimateSynthetic ==
    /\ config.certificate_sample_length <= MaxBlocks
    /\ \E lm \in SyntheticMeans, n \in 1..MaxPopulation :
           PopulationEstimate(SyntheticHistory(config, lm, n))

DoComputeSynthetic ==
    /\ config.certificate_sample_length <= MaxBlocks
    /\ \E lm \in SyntheticMeans, n \in 1..MaxPopulation :
           ComputeLocalMean(SyntheticHistory(config, lm, n))

NextSynthetic == DoSetSampleLength \/ DoEstimateSynthetic \/ DoComputeSynthetic

SpecSynthetic == Init /\ [][NextSynthetic]_vars

\* ------------------------------------------------ threads (interleaving)
\* set_wait_timer_globals writes the class attributes one statement at a
\* time and compute_local_mean reads them one at a time; nothing in the
\* module serialises the two, so another thread may run between any two
\* statements.
ConcArgs ==
    { Args({v}, {}, {R(n)}, {R(1)}, {}) : v \in TargetValues, n \in 1..MaxBlocks }
    \cup { Args({}, {}, {R(MaxBlocks)}, {}, {}) }

ConcHistories ==
    UNION { [1..n -> {c \in Certificates : c.identifier = "c1"}] : n \in 0..MaxLen }

ReaderActive == reader.pc # "idle"

\* line 197: the call is entered
SetterCall(a) ==
    /\ setter.pc = "idle"
    /\ setter' = [pc |-> "l202", args |-> a, before |-> config,
                  after |-> set_wait_timer_globals(config, a)]
    /\ reader' = IF ReaderActive
                 THEN [reader EXCEPT !.allowed =
                                       @ \cup {set_wait_timer_globals(config, a)}]
                 ELSE reader
    /\ UNCHANGED <<config, timer, last, watch>>

\* lines 202-203
SetterTarget ==
    /\ setter.pc = "l202"
    /\ config' = AssignTarget(config, setter.args)
    /\ setter' = [setter EXCEPT !.pc = "l204"]
    /\ UNCHANGED <<timer, last, reader, watch>>

\* lines 204-205
SetterInitial ==
    /\ setter.pc = "l204"
    /\ config' = AssignInitial(config, setter.args)
    /\ setter' = [setter EXCEPT !.pc = "l207"]
    /\ UNCHANGED <<timer, last, reader, watch>>

\* lines 206-207
SetterSampleLength ==
    /\ setter.pc = "l207"
    /\ config' = AssignSampleLength(config, setter.args)
    /\ setter' = [setter EXCEPT !.pc = "l208"]
    /\ UNCHANGED <<timer, last, reader, watch>>

\* line 208
SetterBlocksFromSample ==
    /\ setter.pc = "l208"
    /\ config' = AssignBlocksFromSample(config, setter.args)
    /\ setter' = [setter EXCEPT !.pc = "l209"]
    /\ UNCHANGED <<timer, last, reader, watch>>

\* lines 209-210
SetterBlocks ==
    /\ setter.pc = "l209"
    /\ config' = AssignBlocks(config, setter.args)
    /\ setter' = [setter EXCEPT !.pc = "l211"]
    /\ UNCHANGED <<timer, last, reader, watch>>

\* lines 211-212, and the return
SetterMinimum ==
    /\ setter.pc = "l211"
    /\ config' = AssignMinimum(config, setter.args)
    /\ setter' = SetterIdle
    /\ UNCHANGED <<timer, last, reader, watch>>

Read(field) == [reader.reads EXCEPT ![field] = Append(@, config[field])]

\* the configuration as the reader's latest reads show it
Seen(reads) ==
    LET latest(field) ==
            IF Len(reads[field]) = 0 THEN DefaultConfig[field]
            ELSE reads[field][Len(reads[field])]
    IN  Config(DefaultConfig.minimum_wait_time, latest("target_wait_time"),
               latest("initial_wait_time"), latest("certificate_sample_length"),
               latest("fixed_duration_blocks"))

\* line 130: the call is entered
ReaderCall(certificates) ==
    /\ reader.pc = "idle"
    /\ reader' = [pc |-> "l143", certificates |-> certificates,
                  reads |-> NoReads,
                  allowed |-> IF setter.pc = "idle" THEN {config}
                              ELSE {setter.before, setter.after},
                  result |-> Value(NoVal)]
    /\ UNCHANGED <<config, timer, last, setter, watch>>

\* line 143: count < cls.fixed_duration_blocks
ReaderTest ==
    /\ reader.pc = "l143"
    /\ reader' = [reader EXCEPT
                    !.reads = Read("fixed_duration_blocks"),
                    !.pc = IF InBootstrap(config, Len(reader.certificates))
                           THEN "l144" ELSE "l150"]
    /\ UNCHANGED <<config, timer, last, setter, watch>>

\* line 144: ratio = 1.0 * count / cls.fixed_duration_blocks
ReaderRatio ==
    /\ reader.pc = "l144"
    /\ reader' = [reader EXCEPT !.reads = Read("fixed_duration_blocks"),
                                !.pc = "l146"]
    /\ UNCHANGED <<config, timer, last, setter, watch>>

\* line 146: cls.target_wait_time
ReaderBootstrapTarget ==
    /\ reader.pc = "l146"
    /\ reader' = [reader EXCEPT !.reads = Read("target_wait_time"), !.pc = "l147"]
    /\ UNCHANGED <<config, timer, last, setter, watch>>

\* line 147: cls.initial_wait_time, and the result
ReaderBootstrapInitial ==
    /\ reader.pc = "l147"
    /\ \E reads \in {Read("initial_wait_time")} :
         reader' = [reader EXCEPT
                      !.reads = reads, !.pc = "done",
                      !.result = Value(BootstrapMean(Seen(reads),
                                                     Len(reader.certificates)))]
    /\ UNCHANGED <<config, timer, last, setter, watch>>

\* line 150: cls.target_wait_time, read before the estimator is called
ReaderSteadyTarget ==
    /\ reader.pc = "l150"
    /\ reader' = [reader EXCEPT !.reads = Read("target_wait_time"), !.pc = "l85"]
    /\ UNCHANGED <<config, timer, last, setter, watch>>

\* line 85: the estimator's precondition
ReaderAssert ==
    /\ reader.pc = "l85"
    /\ reader' = IF SampleAvailable(config, reader.certificates)
                 THEN [reader EXCEPT !.reads = Read("certificate_sample_length"),
                                     !.pc = "l89"]
                 ELSE [reader EXCEPT !.reads = Read("certificate_sample_length"),
                                     !.pc = "done",
                                     !.result = Raise("AssertionError")]
    /\ UNCHANGED <<config, timer, last, setter, watch>>

\* lines 89-97 and the product of line 150
ReaderSample ==
    /\ reader.pc = "l89"
    /\ \E reads \in {Read("certificate_sample_length")} :
         reader' = [reader EXCEPT
                      !.reads = reads, !.pc = "done",
                      !.result = SteadyStateMean(Seen(reads),
                                    EstimateFromSample(Seen(reads),
                                                       reader.certificates))]
    /\ UNCHANGED <<config, timer, last, setter, watch>>

\* line 152
ReaderReturn ==
    /\ reader.pc = "done"
    /\ reader' = ReaderIdle
    /\ UNCHANGED <<config, timer, last, setter, watch>>

DoSetterCall == \E a \in ConcArgs : SetterCall(a)
DoReaderCall == \E certificates \in ConcHistories : ReaderCall(certificates)

NextConc ==
    \/ DoSetterCall \/ SetterTarget \/ SetterInitial \/ SetterSampleLength
    \/ SetterBlocksFromSample \/ SetterBlocks \/ SetterMinimum
    \/ DoReaderCall \/ ReaderTest \/ ReaderRatio \/ ReaderBootstrapTarget
    \/ ReaderBootstrapInitial \/ ReaderSteadyTarget \/ ReaderAssert
    \/ ReaderSample \/ ReaderReturn

SpecConc == Init /\ [][NextConc]_vars

\* ---------------------------------------------------------------- claims
Polled == last.op = "has_expired"
Computed == last.op = "compute_local_mean"
Estimated == last.op = "population_estimate"
Created == last.op = "create_wait_timer"
Reconfigured == last.op = "set_wait_timer_globals"
Count == Len(last.certificates)

\* C1: a call has_expired(now) with now < expires_at returns false and makes
\* no enclave call (no deserialize_wait_timer, no verify_wait_timer),
\* whatever the enclave would answer and however often it is polled.
C1_EarlyPollIsLocal ==
    (Polled /\ RLt(last.now, timer.expires)) =>
        /\ last.flag = FALSE
        /\ Len(last.deserializes) = 0
        /\ Len(last.verifies) = 0

C1_Witness ==
    /\ Polled
    /\ last.now = RSub(timer.expires, Grace)
    /\ last.flag = FALSE

\* C2: a call has_expired(now) with now >= expires_at (equality included)
\* verifies exactly once, on the handle deserialized from the retained
\* (serialized form, signature), and returns the enclave's boolean.
C2_LatePollVerifiesOnce ==
    (Polled /\ ~RLt(last.now, timer.expires)) =>
        /\ Len(last.deserializes) = 1
        /\ last.deserializes[1].serialized_timer = timer.serialized_timer
        /\ last.deserializes[1].signature = timer.signature
        /\ Len(last.verifies) = 1
        /\ last.verifies[1].handle =
               deserialize_wait_timer(timer.serialized_timer, timer.signature)
        /\ last.flag = last.verifies[1].ret

C2_Witness ==
    /\ Polled
    /\ last.now = timer.expires
    /\ Len(last.verifies) = 1
    /\ last.flag = TRUE

\* C3: compute_local_mean never trips the population estimator's
\* precondition len(certificates) >= certificate_sample_length, in any
\* configuration set_wait_timer_globals can produce.
C3_ComputeNeverTripsPrecondition ==
    Computed => last.result.err # "AssertionError"

\* C4: with count >= fixed_duration_blocks (count = fixed_duration_blocks
\* included) compute_local_mean is the steady-state branch: target_wait_time
\* times the population estimate, an error of the estimate being passed on.
C4_SteadyStateFromBoundary ==
    (Computed /\ Count >= config.fixed_duration_blocks) =>
        LET est == population_estimate(config, last.certificates)
        IN  IF IsValue(est)
            THEN last.result = Value(RMul(config.target_wait_time, est.val))
            ELSE last.result = est

C4_Witness ==
    /\ Computed
    /\ Count = config.fixed_duration_blocks
    /\ Count > 0
    /\ IsValue(last.result)

ClosedFormBootstrap(tg, ini, count, fdb) ==
    RDiv(RAdd(RMul(tg, R(fdb * fdb - count * count)), RMul(ini, R(count * count))),
         R(fdb * fdb))

\* C5: with count < fixed_duration_blocks compute_local_mean returns
\* target * (1 - r^2) + initial * r^2 for the exact ratio
\* r = count / fixed_duration_blocks, whatever the certificates hold, and
\* target_wait_time itself at count = 0.
C5_BootstrapClosedForm ==
    (Computed /\ Count < config.fixed_duration_blocks) =>
        /\ last.result =
             Value(ClosedFormBootstrap(config.target_wait_time,
                                       config.initial_wait_time,
                                       Count, config.fixed_duration_blocks))
        /\ (Count = 0 => last.result = Value(config.target_wait_time))

C5_Witness ==
    /\ Computed
    /\ 0 < Count
    /\ Count < config.fixed_duration_blocks
    /\ config.fixed_duration_blocks <= MaxBlocks

\* C6: after set_wait_timer_globals with certificate_sample_length = n alone,
\* certificate_sample_length = fixed_duration_blocks = int(n); with
\* fixed_duration_blocks = m supplied too, certificate_sample_length = int(n)
\* and fixed_duration_blocks = int(m).
C6_SampleLengthResetsBlocks ==
    (Reconfigured /\ last.args.certificate_sample_length # {}) =>
        LET n == IntOf(The(last.args.certificate_sample_length))
        IN  /\ config.certificate_sample_length = n
            /\ IF last.args.fixed_duration_blocks = {}
               THEN config.fixed_duration_blocks = n
               ELSE config.fixed_duration_blocks =
                        IntOf(The(last.args.fixed_duration_blocks))

C6_Witness ==
    /\ Reconfigured
    /\ last.args.certificate_sample_length = {R(2)}
    /\ last.args.fixed_duration_blocks = {R(1)}
    /\ config.fixed_duration_blocks = 1

ReadsFrom(reads, cfg) ==
    \A field \in DOMAIN reads :
        \A i \in 1..Len(reads[field]) : reads[field][i] = cfg[field]

\* C7: a compute_local_mean call that runs while set_wait_timer_globals is
\* being applied reads every parameter from one configuration: the one
\* before or the one after the reconfiguration, never a mixture and never
\* an intermediate value.
C7_NoTornRead ==
    ReaderActive => \E cfg \in reader.allowed : ReadsFrom(reader.reads, cfg)

MostRecentId(certificates) ==
    IF Len(certificates) = 0 THEN NullIdentifier ELSE certificates[1].identifier

\* C8: create_wait_timer calls the enclave once with the local mean and the
\* identifier of the most recent certificate of the newest-first history
\* (its first entry), or the null identifier for an empty history.
C8_ExtendsMostRecent ==
    (Created /\ IsValue(compute_local_mean(config, last.certificates))) =>
        /\ Len(last.creates) = 1
        /\ last.creates[1].local_mean =
               compute_local_mean(config, last.certificates).val
        /\ last.creates[1].previous_certificate_id =
               MostRecentId(last.certificates)

WellFormed(certificates) ==
    \A i \in 1..Len(certificates) :
        /\ RLe(R(0), certificates[i].duration)
        /\ RLt(R(0), certificates[i].local_mean)

\* C9: a timer created from certificates with duration >= 0 and
\* local_mean > 0, under positive target and initial wait times, is
\* requested from the enclave with local_mean > 0.
C9_RequestedMeanPositive ==
    (/\ Created
     /\ Len(last.creates) > 0
     /\ WellFormed(last.certificates)
     /\ RLt(R(0), config.target_wait_time)
     /\ RLt(R(0), config.initial_wait_time)) =>
        RLt(R(0), last.creates[1].local_mean)

\* C10: the population estimator called with fewer certificates than
\* certificate_sample_length fails on its precondition assertion and
\* returns no estimate; with at least that many the precondition passes.
C10_EstimatorPrecondition ==
    Estimated =>
        IF Count < config.certificate_sample_length
        THEN last.result = Raise("AssertionError")
        ELSE last.result.err # "AssertionError"

C10_Witness ==
    /\ Estimated
    /\ 0 < Count
    /\ Count < config.certificate_sample_length
    /\ config.certificate_sample_length <= MaxLen
    /\ last.result.err = "AssertionError"

Identical(certificates) ==
    \A i \in 1..Len(certificates) : certificates[i] = certificates[1]

\* C11: on a history of certificate_sample_length (at least one) identical
\* certificates with local mean L and duration = enclave minimum + L/N, the
\* population estimator returns exactly N, for every N >= 1.
C11_SyntheticPopulation ==
    (/\ Estimated
     /\ Count >= 1
     /\ Count = config.certificate_sample_length
     /\ Identical(last.certificates)) =>
        \A n \in 1..MaxPopulation :
            last.certificates[1].duration =
                RAdd(R(MINIMUM_WAIT_TIME),
                     RDiv(last.certificates[1].local_mean, R(n)))
            => last.result = Value(R(n))

C11_Witness ==
    /\ Estimated
    /\ Count = config.certificate_sample_length
    /\ Count >= 2
    /\ Identical(last.certificates)
    /\ last.certificates[1].local_mean = <<3, 2>>
    /\ last.certificates[1].duration = <<3, 2>>
    /\ last.result = Value(R(3))

Omitted(a, field) == a[field] = {}

\* C12: set_wait_timer_globals changes only what is supplied: an omitted
\* target_wait_time, initial_wait_time, certificate_sample_length or
\* minimum_wait_time keeps its value, fixed_duration_blocks keeps its value
\* when neither it nor certificate_sample_length is supplied, and a call
\* without arguments leaves the whole configuration as it was.
C12_OnlySuppliedChange ==
    [][last'.op = "set_wait_timer_globals" =>
          /\ \A field \in {"target_wait_time", "initial_wait_time",
                            "certificate_sample_length", "minimum_wait_time"} :
                 Omitted(last'.args, field) => config'[field] = config[field]
          /\ (/\ Omitted(last'.args, "fixed_duration_blocks")
              /\ Omitted(last'.args, "certificate_sample_length")) =>
                 config'.fixed_duration_blocks = config.fixed_duration_blocks
          /\ last'.args = NoArgs => config' = config]_vars

C12_Witness ==
    /\ Reconfigured
    /\ ~Omitted(last.args, "target_wait_time")
    /\ Omitted(last.args, "initial_wait_time")
    /\ Omitted(last.args, "certificate_sample_length")
    /\ Omitted(last.args, "fixed_duration_blocks")
    /\ Omitted(last.args, "minimum_wait_time")
    /\ config.initial_wait_time = R(45)
    /\ config.minimum_wait_time = R(2)
    /\ config.fixed_duration_blocks # config.certificate_sample_length

EnclaveRaised(call) == Len(call.creates) = 1 /\ call.creates[1].raised

\* C13: when the enclave's create_wait_timer fails, create_wait_timer
\* raises that failure to its caller, constructs no WaitTimer (the timer
\* the driver already holds stays as it was) and leaves the configuration
\* unchanged.
C13_EnclaveFailurePropagates ==
    [][(last'.op = "create_wait_timer" /\ EnclaveRaised(last')) =>
          /\ last'.result = Raise("EnclaveUnavailable")
          /\ last'.flag = FALSE
          /\ timer' = timer
          /\ config' = config]_vars

C13_Witness ==
    /\ Created
    /\ EnclaveRaised(last)
    /\ last.result = Raise("EnclaveUnavailable")
    /\ Count > 0
    /\ timer.live
    /\ config # DefaultConfig

SampleOnly == Prefix(last.certificates, config.certificate_sample_length)

\* C14 (as stated): the estimate for a history longer than
\* certificate_sample_length is smaller than the estimate for exactly its
\* newest certificate_sample_length entries.
C14_LongerHistoryDilutes ==
    (/\ Estimated
     /\ Count > config.certificate_sample_length
     /\ IsValue(last.result)
     /\ IsValue(population_estimate(config, SampleOnly))) =>
        RLt(last.result.val, population_estimate(config, SampleOnly).val)

\* C14 (amended): the estimate for a history longer than
\* certificate_sample_length is the same as the estimate for exactly its
\* newest certificate_sample_length entries, value or failure alike: the
\* input length divides both averages and cancels in their quotient.
C14_LongerHistorySameEstimate ==
    (Estimated /\ Count > config.certificate_sample_length) =>
        last.result = population_estimate(config, SampleOnly)

C14_Witness ==
    /\ Estimated
    /\ config.certificate_sample_length >= 1
    /\ Count > config.certificate_sample_length
    /\ last.certificates[Count] # last.certificates[1]
    /\ IsValue(last.result)
    /\ last.result = population_estimate(config, SampleOnly)

\* the failures the error taxonomy names: the precondition assertion
\* (InvalidArgument) and the enclave's (EnclaveUnavailable)
NamedFailures == {"AssertionError", "EnclaveUnavailable"}

\* C15: on certificates with durations >= 0 and local means > 0 the
\* estimator and compute_local_mean return a number or fail with a named
\* kind of error, never with another failure such as a division by zero.
C15_OnlyNamedFailures ==
    ((Computed \/ Estimated) /\ WellFormed(last.certificates)) =>
        (IsValue(last.result) \/ last.result.err \in NamedFailures)

\* C16: a constructed WaitTimer keeps every field (previous certificate
\* identifier, local mean, request time, duration, signature, serialized
\* form, deadline) through has_expired and set_wait_timer_globals calls,
\* and the deadline of a timer is its construction time + duration + 0.1.
C16_TimerImmutable ==
    [][/\ (timer.live /\ last'.op \in {"has_expired", "set_wait_timer_globals"})
            => timer' = timer
       /\ (last'.op = "create_wait_timer" /\ last'.flag)
            => timer'.expires =
                   RAdd(RAdd(last'.now, timer'.duration), <<1, 10>>)]_vars

C16_Witness ==
    /\ Polled
    /\ Len(last.verifies) = 1
    /\ last.flag = FALSE
    /\ config.certificate_sample_length = 1
    /\ timer.local_mean = R(30)
    /\ timer.duration = <<5, 2>>
    /\ timer.expires = <<63, 5>>

\* C17: polled at non-decreasing times against an enclave that answers the
\* same for the same timer, a timer that has once taken the post-deadline
\* branch takes it on every later call: each such call consults the enclave
\* again, exactly once, and returns the boolean the first one returned.
C17_LifecycleOneWay ==
    [][(last'.op = "has_expired" /\ watch.late > 0) =>
          /\ Len(last'.deserializes) = 1
          /\ Len(last'.verifies) = 1
          /\ last'.flag = watch.returned]_vars

C17_Witness ==
    /\ Polled
    /\ watch.late = 3
    /\ watch.verdict
    /\ watch.returned
    /\ last.flag
    /\ last.now = RAdd(timer.expires, R(1))

\* the local mean for the history one certificate shorter
OneFewer ==
    compute_local_mean(config, SubSeq(last.certificates, 1, Count - 1))

\* C18 (as stated): for every reachable configuration and every count with
\* 0 < count < fixed_duration_blocks, compute_local_mean returns a value
\* strictly below initial_wait_time that is no smaller than the value for
\* count - 1.
C18_BootstrapBelowInitial ==
    (/\ Computed
     /\ 0 < Count
     /\ Count < config.fixed_duration_blocks) =>
        /\ RLt(last.result.val, config.initial_wait_time)
        /\ RLe(OneFewer.val, last.result.val)

\* C18 (amended): the same, for the configurations in which
\* target_wait_time < initial_wait_time.
C18_BootstrapBelowInitialFromLowerTarget ==
    (/\ Computed
     /\ 0 < Count
     /\ Count < config.fixed_duration_blocks
     /\ RLt(config.target_wait_time, config.initial_wait_time)) =>
        /\ IsValue(last.result)
        /\ RLt(last.result.val, config.initial_wait_time)
        /\ RLe(OneFewer.val, last.result.val)

C18_Witness ==
    /\ Computed
    /\ Count = 1
    /\ config.fixed_duration_blocks = 2
    /\ config.target_wait_time = R(30)
    /\ config.initial_wait_time = R(45)
    /\ last.result = Value(<<135, 4>>)
    /\ OneFewer = Value(R(30))

====
